---- MODULE Spec2Model ----
(***************************************************************************)
(* Model of xpra/x11/gtk_x11/window_damage.py: the WindowDamageHandler     *)
(* class (one "capture session" per tracked window) together with the      *)
(* class attribute WindowDamageHandler.XShmEnabled shared by all sessions. *)
(*                                                                         *)
(* Every public method is one action.  The display server, the XShm        *)
(* channel wrapper and the pixmap wrapper are outside the class: their     *)
(* answers (a handle, no handle, an XError of some kind, the three probe    *)
(* signals) are inputs chosen with \E.                                      *)
(***************************************************************************)
EXTENDS Integers, Sequences, FiniteSets

(* ---------------------------------------------------------------- bounds *)
MaxSize == 2         \* windows and requests take the first MaxSize sizes of
                     \* the sequence 1x1, 2x1, 2x2, 3x2, 3x3, ...

(* ------------------------------------------------------------- constants *)
AllSessions == {"a", "b"}
\* the k-th size: each is one pixel wider or one pixel taller than the one before
SizeNo(k) == [w |-> (k + 2) \div 2, h |-> (k + 1) \div 2]
Sizes == {SizeNo(k) : k \in 1..MaxSize}
Borders == {0, 1}       \* border widths: carried, never tested
ErrKinds == {"BadMatch", "BadWindow", "Other"}   \* XError.msg prefixes
None == <<>>                                     \* Python None / falsy handle
Some(r) == <<r>>

VARIABLES
    constructed,       \* sessions for which __init__ has run
    client_window,     \* [s] TRUE iff self.client_window is not None
    use_xshm,          \* [s] self._use_xshm
    damage_handle,     \* [s] self._damage_handle   (None or Some("dh"))
    xshm_handle,       \* [s] self._xshm_handle     (None or Some([w,h,init]))
    contents_handle,   \* [s] self._contents_handle (None or Some([w,h,preAck]))
    border_width,      \* [s] self._border_width
    XShmEnabled,       \* WindowDamageHandler.XShmEnabled (class attribute)
    hasXShmExt,        \* XImage.has_XShm(): is the extension present
    winSize,           \* [s] the window's current size at the display server
    subscribed,        \* [s] the session is registered as an event receiver
    active,            \* [s] history: a setup() completed and no destroy() since
    shmFailedSeen,     \* history: some probe has reported xshm_failed
    last,              \* the operation just performed and what it returned
                       \* (req: the request a returned image answers;
                       \* probe: what XShmWrapper.setup() answered, if
                       \* called; fast: what shm.get_image answered, if called)
    calls              \* external calls made by that operation, in order

vars == <<constructed, client_window, use_xshm, damage_handle, xshm_handle,
          contents_handle, border_width, XShmEnabled, hasXShmExt, winSize,
          subscribed, active, shmFailedSeen, last, calls>>

sessVars == <<client_window, use_xshm, damage_handle, xshm_handle,
              contents_handle, border_width>>

NoRet == [op |-> "init", s |-> "a", req |-> None, result |-> None,
          path |-> "none", probe |-> None, fast |-> "none",
          fastErr |-> "none", slowErr |-> "none", raised |-> "none",
          gone |-> FALSE]

Ret(op, s) == [NoRet EXCEPT !.op = op, !.s = s]

(* ------------------------------------------------------------- __init__ *)
\* the fields a session has right after __init__(client_window, use_xshm)
InitSession(u) ==
    [client_window |-> TRUE, use_xshm |-> u, damage_handle |-> None,
     xshm_handle |-> None, contents_handle |-> None, border_width |-> 0]

\* before any session exists; XShmEnabled = USE_XSHM = envbool("XPRA_XSHM", True)
NoSessions ==
    /\ client_window = [s \in AllSessions |-> TRUE]
    /\ damage_handle = [s \in AllSessions |-> None]
    /\ xshm_handle = [s \in AllSessions |-> None]
    /\ contents_handle = [s \in AllSessions |-> None]
    /\ border_width = [s \in AllSessions |-> 0]
    /\ XShmEnabled \in BOOLEAN
    /\ hasXShmExt \in BOOLEAN
    /\ \E z \in Sizes : winSize = [s \in AllSessions |-> z]
    /\ subscribed = [s \in AllSessions |-> FALSE]
    /\ active = [s \in AllSessions |-> FALSE]
    /\ shmFailedSeen = FALSE
    /\ last = NoRet
    /\ calls = <<>>

\* one session, constructed and not yet set up
Init ==
    /\ NoSessions
    /\ constructed = {"a"}
    /\ \E u \in BOOLEAN :
         use_xshm = [s \in AllSessions |-> IF s = "a" THEN u ELSE FALSE]

\* no session yet: sessions are constructed as the process runs
InitProc ==
    /\ NoSessions
    /\ constructed = {}
    /\ use_xshm = [s \in AllSessions |-> FALSE]

Construct(s) ==
    \E u \in BOOLEAN :
      LET f == InitSession(u) IN
      /\ s \notin constructed
      /\ constructed' = constructed \cup {s}
      /\ client_window' = [client_window EXCEPT ![s] = f.client_window]
      /\ use_xshm' = [use_xshm EXCEPT ![s] = f.use_xshm]
      /\ damage_handle' = [damage_handle EXCEPT ![s] = f.damage_handle]
      /\ xshm_handle' = [xshm_handle EXCEPT ![s] = f.xshm_handle]
      /\ contents_handle' = [contents_handle EXCEPT ![s] = f.contents_handle]
      /\ border_width' = [border_width EXCEPT ![s] = f.border_width]
      /\ last' = Ret("__init__", s)
      /\ calls' = <<>>
      /\ UNCHANGED <<XShmEnabled, hasXShmExt, winSize, subscribed,
                     active, shmFailedSeen>>

(* ----------------------------------------------------- invalidate_pixmap *)
\* a variant that calls cleanup() whatever the cache holds
InvalidateCalls_always(ch) == <<"pixmap.cleanup">>

\* the calls invalidate_pixmap makes for a session whose cache holds ch
InvalidateCalls(ch) == IF ch # None THEN <<"pixmap.cleanup">> ELSE <<>>

\* a variant that leaves the handle in the cache
InvalidatePixmap_keep(ch) == ch

\* self._contents_handle after invalidate_pixmap
InvalidatePixmap(ch) == None

(* ------------------------------------------------------------------ setup *)
\* X11Window.geometry_with_border(xid): None when the window is gone, else a
\* tuple whose last element is the border width
GeometryAnswers == {None} \cup {Some(b) : b \in Borders}

\* add_event_receiver(window, receiver, MAX_RECEIVERS): TRUE = registered,
\* FALSE = raised.  With a window it registers; what it does when handed the
\* None left behind by destroy() is not fixed by anything in this module.
AddEventReceiverOutcomes(win) == IF win THEN {TRUE} ELSE BOOLEAN

\* line 61: the geometry query found no window
GeometryMissing(geom) == geom = None

\* a variant that creates the damage handle before looking at the geometry
DamageAfterSetup_early(dh, geom) == Some("dh")

\* lines 61-64, 67-68: self._damage_handle when setup() returns or raises
DamageAfterSetup(dh, geom) == IF GeometryMissing(geom) THEN dh ELSE Some("dh")

\* lines 61-63: self._border_width when setup() returns or raises
BorderAfterSetup(bw, geom) == IF GeometryMissing(geom) THEN bw ELSE geom[1]

Setup(s) ==
    \E geom \in GeometryAnswers :
      LET inv == InvalidateCalls(contents_handle[s])
          r0 == [Ret("setup", s) EXCEPT !.gone = (geom = None)]
      IN
      /\ contents_handle' = [contents_handle EXCEPT ![s] = InvalidatePixmap(@)]
      /\ border_width' = [border_width EXCEPT ![s] = BorderAfterSetup(@, geom)]
      /\ damage_handle' = [damage_handle EXCEPT ![s] = DamageAfterSetup(@, geom)]
      /\ IF GeometryMissing(geom)
         THEN /\ last' = [r0 EXCEPT !.raised = "Unmanageable"]
              /\ calls' = inv \o <<"geometry_with_border">>
              /\ UNCHANGED <<subscribed, active>>
         ELSE /\ \E registered \in AddEventReceiverOutcomes(client_window[s]) :
                   /\ subscribed' = [subscribed EXCEPT ![s] = @ \/ registered]
                   /\ active' = [active EXCEPT ![s] = @ \/ registered]
                   /\ last' = [r0 EXCEPT !.raised = IF registered THEN "none"
                                                  ELSE "error"]
              /\ calls' = inv \o <<"geometry_with_border", "XDamageCreate",
                                   "add_event_receiver">>
      /\ UNCHANGED <<constructed, client_window, use_xshm, xshm_handle,
                     XShmEnabled, hasXShmExt, winSize, shmFailedSeen>>

(* ---------------------------------------------------------------- destroy *)
\* the calls destroy_damage_handle makes
DestroyDamageHandleCalls(s) ==
    InvalidateCalls(contents_handle[s])
    \o (IF damage_handle[s] # None THEN <<"XDamageDestroy">> ELSE <<>>)
    \o (IF xshm_handle[s] # None THEN <<"shm.cleanup">> ELSE <<>>)

\* a variant without the early return
AlreadyCleanedUp_never(s) == FALSE

\* has destroy() already run: the test of its first line
AlreadyCleanedUp(s) == ~client_window[s]

Destroy(s) ==
    /\ last' = Ret("destroy", s)
    /\ active' = [active EXCEPT ![s] = FALSE]
    /\ IF AlreadyCleanedUp(s)
       THEN /\ calls' = <<"log.warn">>
            /\ UNCHANGED <<sessVars, subscribed>>
       ELSE /\ client_window' = [client_window EXCEPT ![s] = FALSE]
            /\ subscribed' = [subscribed EXCEPT ![s] = FALSE]
            /\ calls' = <<"remove_event_receiver">> \o DestroyDamageHandleCalls(s)
            /\ contents_handle' = [contents_handle EXCEPT ![s] = InvalidatePixmap(@)]
            /\ damage_handle' = [damage_handle EXCEPT ![s] = None]
            /\ xshm_handle' = [xshm_handle EXCEPT ![s] = None]
            /\ UNCHANGED <<use_xshm, border_width>>
    /\ UNCHANGED <<constructed, XShmEnabled, hasXShmExt, winSize, shmFailedSeen>>

(* ---------------------------------------------------- acknowledge_changes *)
\* a variant that never reaches XDamageSubtract
AckSubtracts_never(s) == FALSE

\* does acknowledge_changes reach XDamageSubtract and invalidate_pixmap
AckSubtracts(s) == damage_handle[s] # None /\ client_window[s]

\* history mark: this snapshot handle was in the cache when an
\* acknowledge_changes returned
MarkAcked(ch) == IF ch = None THEN None ELSE Some([ch[1] EXCEPT !.preAck = TRUE])

AcknowledgeChanges(s) ==
    /\ last' = Ret("acknowledge_changes", s)
    /\ calls' = (IF xshm_handle[s] # None THEN <<"shm.discard">> ELSE <<>>)
                \o (IF AckSubtracts(s)
                    THEN <<"XDamageSubtract">> \o InvalidateCalls(contents_handle[s])
                    ELSE <<>>)
    /\ contents_handle' = [contents_handle EXCEPT ![s] =
                             MarkAcked(IF AckSubtracts(s) THEN InvalidatePixmap(@)
                                       ELSE @)]
    /\ UNCHANGED <<constructed, client_window, use_xshm, damage_handle,
                   xshm_handle, border_width, XShmEnabled, hasXShmExt, winSize,
                   subscribed, active, shmFailedSeen>>

(* ----------------------------------------------------------------- events *)
ReparentEvent(s) ==
    /\ last' = Ret("do_xpra_reparent_event", s)
    /\ calls' = InvalidateCalls(contents_handle[s])
    /\ contents_handle' = [contents_handle EXCEPT ![s] = InvalidatePixmap(@)]
    /\ UNCHANGED <<constructed, client_window, use_xshm, damage_handle,
                   xshm_handle, border_width, XShmEnabled, hasXShmExt, winSize,
                   subscribed, active, shmFailedSeen>>

UnmapEvent(s) ==
    /\ last' = Ret("xpra_unmap_event", s)
    /\ calls' = InvalidateCalls(contents_handle[s])
    /\ contents_handle' = [contents_handle EXCEPT ![s] = InvalidatePixmap(@)]
    /\ UNCHANGED <<constructed, client_window, use_xshm, damage_handle,
                   xshm_handle, border_width, XShmEnabled, hasXShmExt, winSize,
                   subscribed, active, shmFailedSeen>>

ConfigureEvent(s) ==
    \E b \in Borders :
      /\ last' = Ret("do_xpra_configure_event", s)
      /\ border_width' = [border_width EXCEPT ![s] = b]
      /\ calls' = InvalidateCalls(contents_handle[s])
      /\ contents_handle' = [contents_handle EXCEPT ![s] = InvalidatePixmap(@)]
      /\ UNCHANGED <<constructed, client_window, use_xshm, damage_handle,
                     xshm_handle, XShmEnabled, hasXShmExt, winSize,
                     subscribed, active, shmFailedSeen>>

(* ------------------------------------------------------- the environment *)
\* another client resizes the window at the display server; the session is
\* told nothing until a configure event is delivered
WindowResized(s) ==
    \E z \in Sizes :
      /\ z # winSize[s]
      /\ winSize' = [winSize EXCEPT ![s] = z]
      /\ last' = Ret("resize", s)
      /\ calls' = <<>>
      /\ UNCHANGED <<constructed, sessVars, XShmEnabled, hasXShmExt,
                     subscribed, active, shmFailedSeen>>

(* --------------------------------------------------------------- has_xshm *)
\* a variant that does not read the class attribute
has_xshm_session(s) == use_xshm[s] /\ hasXShmExt
\* a variant that does not ask whether the extension is present
has_xshm_noext(s) == use_xshm[s] /\ XShmEnabled

has_xshm(s) == use_xshm[s] /\ XShmEnabled /\ hasXShmExt

(* -------------------------------------------------------- get_xshm_handle *)
\* variants that miss a change of the width alone
SizeChanged_both(sw, sh, ww, wh) == sw # ww /\ sh # wh
SizeChanged_height(sw, sh, ww, wh) == sh # wh

\* line 131: has the size recorded by the handle (sw, sh) left the window's (ww, wh)
SizeChanged(sw, sh, ww, wh) == sw # ww \/ sh # wh

\* line 138: the wrapper XImage.get_XShmWrapper(xid) hands back, not yet set up
NewXShmWrapper(s) == Some([w |-> winSize[s].w, h |-> winSize[s].h, init |-> FALSE])

\* lines 143-145: self._xshm_handle once setup() has answered init_ok
ProbedHandle(new, init_ok) ==
    IF ~init_ok THEN None ELSE Some([new[1] EXCEPT !.init = TRUE])

\* a variant that leaves the session's flag alone
UseAfterProbe_keep(use, retry_window) == use

\* lines 146-148: self._use_xshm once setup() has answered retry_window
UseAfterProbe(use, retry_window) == IF ~retry_window THEN FALSE ELSE use

\* a variant that never clears the class attribute
EnabledAfterProbe_keep(enabled, xshm_failed) == enabled

\* lines 149-151: WindowDamageHandler.XShmEnabled once setup() has answered xshm_failed
EnabledAfterProbe(enabled, xshm_failed) == IF xshm_failed THEN FALSE ELSE enabled

\* XShmWrapper.setup() answers: (init_ok, retry_window, xshm_failed)
ProbeAnswers == [init_ok : BOOLEAN, retry_window : BOOLEAN, xshm_failed : BOOLEAN]

\* line 150: the warning logged when the class attribute is cleared
DisablingWarning == "log.warn: disabling XShm"

\* what one call of get_xshm_handle can do: the value returned (ret), the
\* fields it leaves (xshm, use, enabled), the XError raised inside it (err),
\* whether a probe reported xshm_failed (failed), the calls it made, and
\* what the probe answered (None when it was not called or raised)
XShmOutcome(ret, xshm, use, enabled, err, failed, cs, probe) ==
    [ret |-> ret, xshm |-> xshm, use |-> use, enabled |-> enabled,
     err |-> err, failed |-> failed, calls |-> cs, probe |-> probe]

GetXShmHandle(s) ==
    IF ~has_xshm(s)
    THEN {XShmOutcome(None, xshm_handle[s], use_xshm[s], XShmEnabled,
                      "none", FALSE, <<>>, None)}
    ELSE
      LET h0 == xshm_handle[s]
          stale == /\ h0 # None
                   /\ SizeChanged(h0[1].w, h0[1].h, winSize[s].w, winSize[s].h)
          h1 == IF stale THEN None ELSE h0
          c1 == (IF h0 # None THEN <<"shm.get_size", "get_geometry">> ELSE <<>>)
                \o (IF stale THEN <<"shm.cleanup">> ELSE <<>>)
          c2 == c1 \o <<"get_XShmWrapper">>
          c3 == c2 \o <<"shm.setup">>
          new == NewXShmWrapper(s)
      IN
      IF h1 # None
      THEN {XShmOutcome(h1, h1, use_xshm[s], XShmEnabled, "none", FALSE, c1, None)}
      ELSE
        \* get_XShmWrapper returns None: failed (may retry)
        {XShmOutcome(None, None, use_xshm[s], XShmEnabled, "none", FALSE, c2, None)}
        \cup
        \* get_XShmWrapper raises
        {XShmOutcome(None, None, use_xshm[s], XShmEnabled, k, FALSE, c2, None)
            : k \in ErrKinds}
        \cup
        \* setup() raises: the assignment of line 138 has already happened
        {XShmOutcome(None, new, use_xshm[s], XShmEnabled, k, FALSE, c3, None)
            : k \in ErrKinds}
        \cup
        \* setup() answers
        {XShmOutcome(ProbedHandle(new, p.init_ok),
                     ProbedHandle(new, p.init_ok),
                     UseAfterProbe(use_xshm[s], p.retry_window),
                     EnabledAfterProbe(XShmEnabled, p.xshm_failed),
                     "none", p.xshm_failed,
                     c3 \o (IF p.xshm_failed THEN <<DisablingWarning>> ELSE <<>>),
                     Some(p))
            : p \in ProbeAnswers}

(* ---------------------------------------------------- get_contents_handle *)
\* XImage.get_xwindow_pixmap_wrapper(xid) under xlog: a wrapper of the
\* window's present size, or nothing (it returned None, or raised an XError
\* that xlog swallowed and _set_pixmap never assigned)
NewPixmapWrapper(s) ==
    Some([w |-> winSize[s].w, h |-> winSize[s].h, preAck |-> FALSE])

\* a variant without the shortcut for a destroyed session
GetContentsHandle_noshortcut(s) ==
    IF contents_handle[s] = None
    THEN {[ret |-> c, contents |-> c, calls |-> <<"get_xwindow_pixmap_wrapper">>]
             : c \in {None, NewPixmapWrapper(s)}}
    ELSE {[ret |-> contents_handle[s], contents |-> contents_handle[s],
           calls |-> <<>>]}

\* what one call of get_contents_handle can do: the value returned (ret),
\* self._contents_handle afterwards (contents), whether it fetched, its calls
GetContentsHandle(s) ==
    IF ~client_window[s]
    THEN {[ret |-> None, contents |-> contents_handle[s], calls |-> <<>>]}
    ELSE IF contents_handle[s] = None
    THEN {[ret |-> c, contents |-> c, calls |-> <<"get_xwindow_pixmap_wrapper">>]
             : c \in {None, NewPixmapWrapper(s)}}
    ELSE {[ret |-> contents_handle[s], contents |-> contents_handle[s],
           calls |-> <<>>]}

(* -------------------------------------------------------------- get_image *)
Min(a, b) == IF a < b THEN a ELSE b

\* a variant that asks for the caller's width (height) whatever the pixmap's
ClampDim_request(handleDim, reqDim) == reqDim

\* lines 191-192: the width (height) asked of the pixmap wrapper
ClampDim(handleDim, reqDim) == Min(handleDim, reqDim)

\* a variant that clamps the fast path's rectangle to the pixmap as well
FastRect_clamped(snap, width, height) ==
    [w |-> Min(snap.w, width), h |-> Min(snap.h, height)]

\* line 180: the width and height handed to shm.get_image
FastRect(snap, width, height) == [w |-> width, h |-> height]

\* a variant whose except clause lets everything but BadMatch through
FastErrorAction_narrow(msg) == IF msg = "BadMatch" THEN "debug" ELSE "raise"

\* lines 184-188: the except clause of the fast path; both branches only log
FastErrorAction(msg) ==
    IF msg \in {"BadMatch", "BadWindow"} THEN "debug" ELSE "warn"

\* a variant whose except clause re-raises what is not BadMatch
SlowErrorAction_reraise(msg) == IF msg = "BadMatch" THEN "debug" ELSE "raise"

\* lines 197-202: the except clause of the slow path; both branches log and
\* fall to "return None"
SlowErrorAction(msg) == IF msg = "BadMatch" THEN "debug" ELSE "warn"

\* shm.get_image(pixmap, x, y, w, h) inside "with xsync": an image, nothing,
\* or an XError (raised by the call or when the xsync block is left)
ShmImageAnswers == {"image", "null"} \cup ErrKinds
\* the image it returns is the rectangle it was asked for
ShmImage(rect) == Some([w |-> rect.w, h |-> rect.h])

\* handle.get_image(x, y, w, h): an image or an XError
PixmapImageAnswers == {"image"} \cup ErrKinds
\* the image it returns is the rectangle it was asked for
PixmapImage(w, h) == Some([w |-> w, h |-> h])

LogCalls(action) == IF action = "warn" THEN <<"log.warn">> ELSE <<>>

\* the variables get_image leaves, given what its parts did
GetImageDone(s, contents, xo, ret, cs) ==
    /\ contents_handle' = [contents_handle EXCEPT ![s] = contents]
    /\ xshm_handle' = [xshm_handle EXCEPT ![s] = xo.xshm]
    /\ use_xshm' = [use_xshm EXCEPT ![s] = xo.use]
    /\ XShmEnabled' = xo.enabled
    /\ shmFailedSeen' = (shmFailedSeen \/ xo.failed)
    /\ last' = [ret EXCEPT !.probe = xo.probe]
    /\ calls' = cs
    /\ UNCHANGED <<constructed, client_window, damage_handle, border_width,
                   hasXShmExt, winSize, subscribed, active>>

\* get_xshm_handle not called
NoXShmCall(s) ==
    XShmOutcome(None, xshm_handle[s], use_xshm[s], XShmEnabled, "none", FALSE, <<>>,
                None)

\* lines 190-202
SlowPath(s, req, snap, xo, r0, cs) ==
    LET w == ClampDim(snap.ret[1].w, req.w)
        h == ClampDim(snap.ret[1].h, req.h)
    IN \E sr \in PixmapImageAnswers :
         IF sr = "image"
         THEN GetImageDone(s, snap.contents, xo,
                  [r0 EXCEPT !.req = Some(req), !.result = PixmapImage(w, h),
                              !.path = "slow"],
                  cs \o <<"pixmap.get_image">>)
         ELSE LET act == SlowErrorAction(sr) IN
              GetImageDone(s, snap.contents, xo,
                  [r0 EXCEPT !.slowErr = sr,
                             !.raised = IF act = "raise" THEN "XError" ELSE "none"],
                  cs \o <<"pixmap.get_image">> \o LogCalls(act))

\* lines 184-188 followed by the slow path
AfterFastError(s, req, snap, xo, r0, cs, msg) ==
    LET act == FastErrorAction(msg)
        r1 == [r0 EXCEPT !.fastErr = msg]
    IN IF act = "raise"
       THEN GetImageDone(s, snap.contents, xo, [r1 EXCEPT !.raised = "XError"], cs)
       ELSE IF act = "return"
       THEN GetImageDone(s, snap.contents, xo, r1, cs \o <<"log.warn">>)
       ELSE SlowPath(s, req, snap, xo, r1, cs \o LogCalls(act))

\* x and y are forwarded untouched to both wrappers and take part in no
\* decision of get_image: the request is its width and height
GetImage(s) ==
    \E req \in Sizes :
    \E snap \in GetContentsHandle(s) :
      LET r0 == Ret("get_image", s) IN
      IF snap.ret = None
      THEN GetImageDone(s, snap.contents, NoXShmCall(s), r0, snap.calls)
      ELSE
        \E xo \in GetXShmHandle(s) :
          LET cs == snap.calls \o xo.calls IN
          IF xo.err # "none"
          THEN AfterFastError(s, req, snap, xo, r0, cs, xo.err)
          ELSE IF xo.ret = None
          THEN SlowPath(s, req, snap, xo, r0, cs)
          ELSE
            \E fr \in ShmImageAnswers :
              LET rect == FastRect(snap.ret[1], req.w, req.h)
                  cf == cs \o <<"shm.get_image">>
              IN
              IF fr = "image"
              THEN GetImageDone(s, snap.contents, xo,
                       [r0 EXCEPT !.req = Some(req), !.result = ShmImage(rect),
                                   !.path = "fast", !.fast = "image"], cf)
              ELSE IF fr = "null"
              THEN SlowPath(s, req, snap, xo, [r0 EXCEPT !.fast = "null"], cf)
              ELSE AfterFastError(s, req, snap, xo, r0, cf, fr)

(* ----------------------------------------------------------- the program *)
SessionOp(s) ==
    \/ Setup(s)
    \/ Destroy(s)
    \/ AcknowledgeChanges(s)
    \/ GetImage(s)
    \/ ReparentEvent(s)
    \/ UnmapEvent(s)
    \/ ConfigureEvent(s)

Next ==
    \/ \E s \in constructed : SessionOp(s)
    \/ \E s \in constructed : WindowResized(s)

Spec == Init /\ [][Next]_vars

\* several sessions of one process sharing WindowDamageHandler.XShmEnabled:
\* sessions are constructed, capture, acknowledge and are destroyed
NextProc ==
    \/ \E s \in AllSessions : Construct(s)
    \/ \E s \in constructed : GetImage(s)
    \/ \E s \in constructed : AcknowledgeChanges(s)
    \/ \E s \in constructed : Destroy(s)

SpecProc == InitProc /\ [][NextProc]_vars

(***************************************************************************)
(* Properties                                                              *)
(***************************************************************************)
InSeq(c, cs) == \E i \in 1..Len(cs) : cs[i] = c
\* every occurrence of a in cs comes before every occurrence of b
Precedes(a, b, cs) ==
    \A i, j \in 1..Len(cs) : (cs[i] = a /\ cs[j] = b) => i < j

\* some occurrence of a in cs comes before some occurrence of b
OccursBefore(a, b, cs) ==
    \E i, j \in 1..Len(cs) : cs[i] = a /\ cs[j] = b /\ i < j

Within(img, box) == img.w <= box.w /\ img.h <= box.h

\* the last operation was a get_image that returned an image
ReturnedImage == last.op = "get_image" /\ last.result # None
\* the snapshot handle that get_image worked on
SnapshotOf(s) == contents_handle[s][1]

\* this step is a get_image of session s that got past get_contents_handle
\* (so it called get_xshm_handle)
ReachedFastPath(s) ==
    /\ last'.op = "get_image" /\ last'.s = s
    /\ client_window[s] /\ contents_handle'[s] # None

\* before the step the session caches a channel whose recorded size is not
\* the window's
Mismatched(s) ==
    /\ xshm_handle[s] # None
    /\ \/ xshm_handle[s][1].w # winSize[s].w
       \/ xshm_handle[s][1].h # winSize[s].h

\* after the step the session caches no channel of another size than the window's
NoMismatchLeft(s) ==
    \/ xshm_handle'[s] = None
    \/ /\ xshm_handle'[s][1].w = winSize'[s].w
       /\ xshm_handle'[s][1].h = winSize'[s].h

Available(s) == use_xshm[s] /\ XShmEnabled /\ hasXShmExt

C2_NeverReturnsAckedSnapshot ==
    (last.op = "get_image" /\ client_window[last.s]
        /\ contents_handle[last.s] # None)
    => ~SnapshotOf(last.s).preAck

\* C2 amended: acknowledge_changes on a session that holds a damage handle and
\* still has its window empties the snapshot cache (releasing what it held),
\* and a session with a damage handle never caches a handle from before an
\* acknowledgement, so its next get_contents_handle fetches afresh or
\* returns nothing.
C2_FreshAfterAck ==
    /\ [][\A s \in constructed :
            (last'.op = "acknowledge_changes" /\ last'.s = s
                /\ damage_handle[s] # None /\ client_window[s])
            => /\ contents_handle'[s] = None
               /\ contents_handle[s] # None => InSeq("pixmap.cleanup", calls')
         ]_vars
    /\ [](\A s \in constructed :
            (damage_handle[s] # None /\ contents_handle[s] # None)
            => ~SnapshotOf(s).preAck)

\* an acknowledgement has just released a cached snapshot
C2_Witness ==
    /\ last.op = "acknowledge_changes"
    /\ InSeq("XDamageSubtract", calls) /\ InSeq("pixmap.cleanup", calls)
    /\ contents_handle[last.s] = None

(* ---- C3 ---------------------------------------------------------------- *)
\* C3 as stated: get_xshm_handle on a session caching a mismatched channel
\* releases it first, whether or not the fast path is available, and never
\* leaves it cached.
C3_AlwaysDiscardsMismatched ==
    [][\A s \in constructed :
         (ReachedFastPath(s) /\ Mismatched(s))
         => /\ InSeq("shm.cleanup", calls')
            /\ NoMismatchLeft(s)
      ]_vars

\* C3 amended: when the fast path is available for the session,
\* get_xshm_handle releases a mismatched channel before it allocates, and
\* leaves cached either nothing or a channel of the window's size; when it is
\* not available, get_xshm_handle returns None at once and leaves the cached
\* channel as it is.
C3_DiscardsMismatchedWhenAvailable ==
    [][\A s \in constructed :
         (ReachedFastPath(s) /\ Mismatched(s))
         => IF Available(s)
            THEN /\ InSeq("shm.cleanup", calls')
                 /\ Precedes("shm.cleanup", "get_XShmWrapper", calls')
                 /\ NoMismatchLeft(s)
            ELSE /\ xshm_handle'[s] = xshm_handle[s]
                 /\ ~InSeq("shm.cleanup", calls')
                 /\ ~InSeq("get_XShmWrapper", calls')
                 /\ last'.path # "fast"
      ]_vars

\* a get_image released a mismatched channel, negotiated a new one and
\* returned its image
C3_Witness ==
    /\ last.op = "get_image" /\ last.path = "fast"
    /\ InSeq("shm.cleanup", calls) /\ InSeq("get_XShmWrapper", calls)

(* ---- C4 ---------------------------------------------------------------- *)
\* C4: WindowDamageHandler.XShmEnabled never goes from False to True, and
\* once a probe has reported xshm_failed no constructed session, old or new,
\* has has_xshm() true.
C4_LatchOneWay ==
    /\ [][XShmEnabled' => XShmEnabled]_vars
    /\ [](shmFailedSeen => \A s \in constructed : ~Available(s))

\* after a probe reported xshm_failed, a session was constructed with the
\* fast path requested, on a display that has the extension
C4_Witness ==
    /\ shmFailedSeen /\ hasXShmExt
    /\ last.op = "__init__" /\ use_xshm[last.s]

(* ---- C5 ---------------------------------------------------------------- *)
\* before the step the cached channel records a size the window has shrunk from
Shrunk(s) ==
    /\ Mismatched(s)
    /\ winSize[s].w <= xshm_handle[s][1].w
    /\ winSize[s].h <= xshm_handle[s][1].h

C6_VanishedInFastPathFallsBack ==
    (last.op = "get_image" /\ last.fastErr \in {"BadMatch", "BadWindow"})
    => /\ last.raised = "none"
       /\ InSeq("pixmap.get_image", calls)
       /\ \/ last.result # None /\ last.path = "slow" /\ last.slowErr = "none"
          \/ last.result = None /\ last.slowErr # "none"

\* the fast path raised BadWindow and get_image returned the slow-path image
C6_Witness ==
    /\ ReturnedImage /\ last.fastErr = "BadWindow" /\ last.path = "slow"

(* ---- C7 ---------------------------------------------------------------- *)
\* C7 as stated: an XError that is neither BadMatch nor BadWindow, in either
\* path of get_image, makes get_image return None without raising.
C7_OtherErrorAborts ==
    (last.op = "get_image" /\ (last.fastErr = "Other" \/ last.slowErr = "Other"))
    => (last.result = None /\ last.raised = "none")

\* C7 amended: such an error in the slow path is logged as a warning and
\* get_image returns None without raising; in the fast path it is logged as
\* a warning and not raised either, but get_image goes on to the slow path
\* and returns what the slow path gives.
C7_OtherErrorNeverRaised ==
    /\ (last.op = "get_image" /\ last.slowErr = "Other")
       => (last.result = None /\ last.raised = "none" /\ InSeq("log.warn", calls))
    /\ (last.op = "get_image" /\ last.fastErr = "Other")
       => /\ last.raised = "none"
          /\ OccursBefore("log.warn", "pixmap.get_image", calls)
          /\ last.slowErr = "none" => (last.result # None /\ last.path = "slow")

\* both paths raised an XError of another kind and get_image returned None
C7_Witness ==
    /\ last.op = "get_image" /\ last.fastErr = "Other" /\ last.slowErr = "Other"
    /\ last.result = None

(* ---- C8 ---------------------------------------------------------------- *)
\* C8: destroy() on a session that was already destroyed does not raise,
\* only logs, makes no other call and leaves every field of the session and
\* its subscription as they were.
C8_SecondDestroyNoOp ==
    [][\A s \in constructed :
         (last'.op = "destroy" /\ last'.s = s /\ ~client_window[s])
         => /\ last'.raised = "none"
            /\ calls' = <<"log.warn">>
            /\ UNCHANGED <<client_window, use_xshm, damage_handle, xshm_handle,
                           contents_handle, border_width, subscribed>>
      ]_vars

\* a destroy() has run on a session that had no window left
C8_Witness ==
    /\ last.op = "destroy" /\ calls = <<"log.warn">> /\ ~client_window[last.s]

(* ---- C9 ---------------------------------------------------------------- *)
\* C9: a setup() whose geometry query returns None raises Unmanageable,
\* creates no damage handle, registers no event receiver and leaves the
\* border width alone.
C9_SetupFailsCleanly ==
    [][\A s \in constructed :
         (last'.op = "setup" /\ last'.s = s /\ last'.gone)
         => /\ last'.raised = "Unmanageable"
            /\ damage_handle'[s] = damage_handle[s]
            /\ subscribed'[s] = subscribed[s]
            /\ border_width'[s] = border_width[s]
            /\ ~InSeq("XDamageCreate", calls')
            /\ ~InSeq("add_event_receiver", calls')
      ]_vars

\* a first setup() found no window: the session has no damage handle and no
\* subscription
C9_Witness ==
    /\ last.op = "setup" /\ last.gone /\ last.raised = "Unmanageable"
    /\ damage_handle[last.s] = None /\ ~subscribed[last.s]

(* ---- C10 --------------------------------------------------------------- *)
\* C10: a session's damage handle is set exactly when the session is active:
\* a setup() has completed and destroy() has not been called since.
C10_DamageHandleIffActive ==
    \A s \in constructed : (damage_handle[s] # None) <=> active[s]

ActiveSession(s) == active[s] /\ client_window[s]

\* C12: acknowledge_changes on an active session (set up, never destroyed)
\* calls, in this order, discard() of the cached channel if there is one,
\* XDamageSubtract, and cleanup() of the cached snapshot if there is one; it
\* leaves the snapshot cache empty and the cached channel where it was,
\* neither released nor cleared.
C12_AckOrderKeepsChannel ==
    [][\A s \in constructed :
         (last'.op = "acknowledge_changes" /\ last'.s = s /\ ActiveSession(s))
         => /\ calls' =
                 (IF xshm_handle[s] # None THEN <<"shm.discard">> ELSE <<>>)
                 \o <<"XDamageSubtract">>
                 \o (IF contents_handle[s] # None THEN <<"pixmap.cleanup">>
                     ELSE <<>>)
            /\ contents_handle'[s] = None
            /\ xshm_handle'[s] = xshm_handle[s]
            /\ damage_handle'[s] = damage_handle[s]
      ]_vars

\* an acknowledgement on an active session that cached a channel and a
\* snapshot made the three calls and still caches the channel
C12_Witness ==
    /\ last.op = "acknowledge_changes" /\ ActiveSession(last.s)
    /\ calls = <<"shm.discard", "XDamageSubtract", "pixmap.cleanup">>
    /\ xshm_handle[last.s] # None /\ contents_handle[last.s] = None

(* ---- C13 --------------------------------------------------------------- *)
\* the operations that call invalidate_pixmap unconditionally
InvalidatingOps ==
    {"do_xpra_reparent_event", "xpra_unmap_event", "do_xpra_configure_event",
     "destroy", "setup"}

\* how many times c occurs in cs
Count(c, cs) == Cardinality({i \in 1..Len(cs) : cs[i] = c})

\* C13: after a reparent, unmap or configure event, after destroy() and after
\* any setup() (one that raises included) the snapshot cache is empty; the
\* handle it held was released by exactly one cleanup() call, and no
\* cleanup() call is made when it held none.  A get_image that starts with
\* the cache empty returns an image only after fetching a new snapshot.
C13_EventsEmptySnapshotCache ==
    /\ [][\A s \in constructed :
            (last'.s = s /\ last'.op \in InvalidatingOps)
            => /\ contents_handle'[s] = None
               /\ Count("pixmap.cleanup", calls') =
                    (IF contents_handle[s] # None THEN 1 ELSE 0)
         ]_vars
    /\ [][\A s \in constructed :
            (last'.op = "get_image" /\ last'.s = s
                /\ contents_handle[s] = None /\ last'.result # None)
            => /\ InSeq("get_xwindow_pixmap_wrapper", calls')
               /\ contents_handle'[s] # None
         ]_vars

\* a reparent event released the cached snapshot
C13_Witness ==
    /\ last.op = "do_xpra_reparent_event"
    /\ calls = <<"pixmap.cleanup">>
    /\ contents_handle[last.s] = None

(* ---- C14 --------------------------------------------------------------- *)
\* C14: when get_xshm_handle has probed a new channel, each of the three
\* answers has its own effect and no other: the session caches the channel
\* exactly when init_ok (and without init_ok get_xshm_handle returns None: no
\* rectangle is asked of a channel); the session's _use_xshm is cleared
\* exactly when retry_window is false; XShmEnabled is cleared exactly when
\* xshm_failed; and the fields of every other session stay as they were.
C14_ProbeSignalsIndependent ==
    [][\A s \in constructed :
         (last'.op = "get_image" /\ last'.s = s /\ last'.probe # None)
         => LET p == last'.probe[1] IN
            /\ (xshm_handle'[s] # None) <=> p.init_ok
            /\ p.init_ok => xshm_handle'[s][1].init
            /\ ~p.init_ok => ~InSeq("shm.get_image", calls')
            /\ use_xshm'[s] = (use_xshm[s] /\ p.retry_window)
            /\ XShmEnabled' = (XShmEnabled /\ ~p.xshm_failed)
            /\ \A t \in AllSessions \ {s} :
                 /\ use_xshm'[t] = use_xshm[t]
                 /\ xshm_handle'[t] = xshm_handle[t]
                 /\ contents_handle'[t] = contents_handle[t]
                 /\ damage_handle'[t] = damage_handle[t]
      ]_vars

\* a probe answered init_ok, not retry_window, not xshm_failed: the session
\* caches the channel with its flag cleared, while another session keeps its
\* flag and its channel and XShmEnabled is still set
C14_Witness ==
    /\ last.op = "get_image"
    /\ last.probe = Some([init_ok |-> TRUE, retry_window |-> FALSE,
                          xshm_failed |-> FALSE])
    /\ ~use_xshm[last.s] /\ xshm_handle[last.s] # None /\ XShmEnabled
    /\ \E t \in constructed \ {last.s} : use_xshm[t] /\ xshm_handle[t] # None

(* ---- C15 --------------------------------------------------------------- *)
\* C15: over all sessions of a process, the "disabling XShm" warning is
\* logged at most once, in the one step that takes XShmEnabled from True to
\* False; once XShmEnabled is False it stays False and no get_image
\* allocates or probes a channel or logs the warning again.
C15_LatchTripsOnce ==
    /\ [][InSeq(DisablingWarning, calls')
            => /\ Count(DisablingWarning, calls') = 1
               /\ ~shmFailedSeen
               /\ XShmEnabled /\ ~XShmEnabled']_vars
    /\ [][(XShmEnabled /\ ~XShmEnabled')
            => (~shmFailedSeen /\ InSeq(DisablingWarning, calls'))]_vars
    /\ [][~XShmEnabled
            => /\ ~XShmEnabled'
               /\ ~InSeq("get_XShmWrapper", calls')
               /\ ~InSeq("shm.setup", calls')
               /\ ~InSeq(DisablingWarning, calls')]_vars

\* after the warning, a session that still has its own flag set, on a display
\* with the extension, captured by the slow path without probing
C15_Witness ==
    /\ shmFailedSeen /\ ~XShmEnabled
    /\ last.op = "get_image" /\ last.path = "slow" /\ last.probe = None
    /\ use_xshm[last.s] /\ hasXShmExt
    /\ ~InSeq("shm.setup", calls)

(* ---- C16 --------------------------------------------------------------- *)
\* some call in cs allocates, probes, measures, reads or releases a channel
TouchesChannel(cs) ==
    \E c \in {"get_XShmWrapper", "shm.setup", "shm.get_size", "shm.get_image",
               "shm.cleanup"} : InSeq(c, cs)

\* C16: has_xshm() is true exactly when the session's _use_xshm, the class
\* attribute XShmEnabled and the presence of the extension are all true; a
\* get_image touches a channel only if has_xshm() held when it was called
\* and it had a snapshot; a get_image without a snapshot returns None and
\* calls neither a channel nor the pixmap wrapper's get_image.
C16_AvailableGuardsChannel ==
    /\ [](\A s \in constructed :
            has_xshm(s) <=> (use_xshm[s] /\ XShmEnabled /\ hasXShmExt))
    /\ [][\A s \in constructed :
            (last'.op = "get_image" /\ last'.s = s)
            => /\ TouchesChannel(calls')
                    => /\ use_xshm[s] /\ XShmEnabled /\ hasXShmExt
                       /\ client_window[s] /\ contents_handle'[s] # None
               /\ contents_handle'[s] = None
                    => /\ last'.result = None /\ last'.raised = "none"
                       /\ ~TouchesChannel(calls')
                       /\ ~InSeq("pixmap.get_image", calls')
                       /\ UNCHANGED <<xshm_handle, use_xshm, XShmEnabled>>
         ]_vars

\* with the session's flag and the class attribute set but the extension
\* absent, get_image captured by the slow path and touched no channel
C16_Witness ==
    /\ last.op = "get_image" /\ last.path = "slow" /\ last.result # None
    /\ use_xshm[last.s] /\ XShmEnabled /\ ~hasXShmExt
    /\ ~TouchesChannel(calls)

(* ---- C17 --------------------------------------------------------------- *)
\* the session holds none of its three handles
AllHandlesNull(s) ==
    /\ damage_handle[s] = None
    /\ xshm_handle[s] = None
    /\ contents_handle[s] = None

\* the operations C17 lets follow destroy()
OpsAfterDestroy ==
    {"get_image", "acknowledge_changes", "do_xpra_reparent_event",
     "xpra_unmap_event", "do_xpra_configure_event", "destroy"}

\* C17: destroy() leaves the session without window and with its three
\* handles None; from such a state get_image, acknowledge_changes, the three
\* event handlers and destroy() keep all of that, every get_image returns
\* None, and none of them calls XDamageSubtract, allocates or probes a
\* channel, or fetches a snapshot.
C17_DestroyedStaysNull ==
    /\ [][\A s \in constructed :
            (last'.op = "destroy" /\ last'.s = s /\ client_window[s])
            => (~client_window'[s] /\ AllHandlesNull(s)')
         ]_vars
    /\ [][\A s \in constructed :
            (last'.s = s /\ last'.op \in OpsAfterDestroy
                /\ ~client_window[s] /\ AllHandlesNull(s))
            => /\ ~client_window'[s] /\ AllHandlesNull(s)'
               /\ last'.result = None /\ last'.raised = "none"
               /\ ~InSeq("XDamageSubtract", calls')
               /\ ~InSeq("get_xwindow_pixmap_wrapper", calls')
               /\ ~TouchesChannel(calls')
               /\ ~InSeq("pixmap.get_image", calls')
         ]_vars

\* a get_image on a destroyed session whose fast path would be available
\* returned None without a call
C17_Witness ==
    /\ last.op = "get_image" /\ last.result = None /\ calls = <<>>
    /\ ~client_window[last.s] /\ AllHandlesNull(last.s)
    /\ use_xshm[last.s] /\ XShmEnabled /\ hasXShmExt

(* ---- C18 --------------------------------------------------------------- *)
\* C18: no channel is dropped without cleanup(): a channel that
\* get_XShmWrapper handed over in a step (setup() is called only on such a
\* channel) is cached when the step ends or had cleanup() called after its
\* allocation; a channel that was cached and no longer is had cleanup()
\* called; and destroy() leaves no channel cached.
C18_NoChannelLeaked ==
    [][\A s \in constructed :
         last'.s = s
         => /\ InSeq("shm.setup", calls')
                 => \/ xshm_handle'[s] # None
                    \/ OccursBefore("get_XShmWrapper", "shm.cleanup", calls')
            /\ (xshm_handle[s] # None /\ xshm_handle'[s] # xshm_handle[s])
                 => InSeq("shm.cleanup", calls')
            /\ (last'.op = "destroy" /\ client_window[s])
                 => xshm_handle'[s] = None
      ]_vars

(* ---- C19 --------------------------------------------------------------- *)
\* C19: a channel cached in self._xshm_handle is always one whose setup()
\* returned with init_ok true; a probe that raised leaves nothing cached.
C19_CachedChannelInitialised ==
    \A s \in constructed :
        xshm_handle[s] # None => xshm_handle[s][1].init

(* ---- C20 --------------------------------------------------------------- *)
\* C20: a session never has two damage handles alive at the display server:
\* setup() creates one only when the session holds none, so none is
\* overwritten before XDamageDestroy, and a handle held when destroy() is
\* called is destroyed by it.
C20_OneLiveDamageHandle ==
    [][\A s \in constructed :
         last'.s = s
         => /\ InSeq("XDamageCreate", calls') => damage_handle[s] = None
            /\ (damage_handle[s] # None /\ damage_handle'[s] = None)
                 => Count("XDamageDestroy", calls') = 1
            /\ (last'.op = "destroy" /\ damage_handle[s] # None)
                 => damage_handle'[s] = None
      ]_vars

====
